---- MODULE Spec2Model ----
(***************************************************************************)
(* Model of src/src/main.rs: a driver thread (main) creates two shared     *)
(* 64-bit counters, spawns worker threads that XOR random operands into    *)
(* both counters, joins the workers and prints both counters.              *)
(*                                                                         *)
(* SharedAtomic::fetch_xor is one indivisible step (AtomicU64::fetch_xor). *)
(* SharedUnsync::fetch_xor is `*cell ^= other` on an UnsafeCell: a plain   *)
(* load, an xor in a register and a plain store.  Concurrent calls are a   *)
(* data race; the model takes every interleaving of the whole-word load    *)
(* and store of the compiled read-modify-write.                            *)
(***************************************************************************)
EXTENDS Integers, Sequences, FiniteSets

VARIABLES cfg, dpc, spawned, joined, unsync, atomic, wpc, i, j, n, reg, aops, uops, out,
          overlapped \* history: some SharedUnsync::fetch_xor began while another was between load and store

vars == <<cfg, dpc, spawned, joined, unsync, atomic, wpc, i, j, n, reg, aops, uops, out, overlapped>>

(* ---- bounds of the model ---- *)

\* most worker threads in a run (32 in the source)
MaxThreads == 2

\* most outer iterations per worker, one operand drawn in each (256 in the source)
MaxOuter == 2

\* most inner repeats per operand, halved: the inner count is kept even, as the source's 2048
MaxInnerHalf == 2

\* cap on threads * outer * inner / 2, the work of one run of main
MaxHalfApps == 2

\* cap on threads * outer * inner, the work of one run with other loop constants
MaxApps == 4

\* largest operand a worker draws (u64::MAX in the source)
MaxOperand == 2

\* largest operand drawn where termination is checked: no branch reads an operand
MaxLiveOperand == 1

\* width of the printed binary text, {:064b}
FMT_WIDTH == 64

Operands == 0 .. MaxOperand

\* a counter that has not been constructed yet
Absent == -1

(* ---- pure functions ---- *)

RECURSIVE Xor(_, _)
\* bitwise exclusive or of two naturals (u64 ^ u64)
Xor(a, b) ==
    IF a = 0 THEN b
    ELSE IF b = 0 THEN a
    ELSE (((a % 2) + (b % 2)) % 2) + 2 * Xor(a \div 2, b \div 2)

RECURSIVE BitOr(_, _)
\* bitwise inclusive or of two naturals (u64 | u64)
BitOr(a, b) ==
    IF a = 0 THEN b
    ELSE IF b = 0 THEN a
    ELSE (IF (a % 2) + (b % 2) > 0 THEN 1 ELSE 0) + 2 * BitOr(a \div 2, b \div 2)

RECURSIVE XorSeq(_)
\* XOR-reduction of a sequence of operands
XorSeq(s) == IF s = <<>> THEN 0 ELSE Xor(Head(s), XorSeq(Tail(s)))

RECURSIVE Bit(_, _)
\* bit number pos (0 = least significant) of v
Bit(v, pos) ==
    IF v = 0 THEN 0
    ELSE IF pos = 0 THEN v % 2
    ELSE Bit(v \div 2, pos - 1)

\* format!("{:064b}", v): width binary digits, most significant first
FmtBin(v, width) == [p \in 1 .. width |-> Bit(v, width - p)]

RECURSIVE BinValue(_)
\* the number a sequence of binary digits (most significant first) denotes
BinValue(digits) ==
    IF digits = <<>> THEN 0
    ELSE 2 * BinValue(SubSeq(digits, 1, Len(digits) - 1)) + digits[Len(digits)]

(* ---- the two counters ---- *)

\* SharedUnsync::get: a plain read of the cell
UnsyncGet == unsync

\* SharedAtomic::get: a relaxed load
AtomicGet == atomic

Workers == 1 .. cfg.threads

\* a worker that has been spawned and has not terminated
Running(w) == wpc[w] \in {"seed", "draw", "atomic", "uread", "uwrite"}

\* where a worker stopped that was running when the process exited
Killed(pc) ==
    CASE pc = "seed" -> "killed_seed"
      [] pc = "draw" -> "killed_draw"
      [] pc = "atomic" -> "killed_atomic"
      [] pc = "uread" -> "killed_uread"
      [] pc = "uwrite" -> "killed_uwrite"
      [] OTHER -> pc

\* every worker has been spawned and has terminated
AllTerminated == spawned = cfg.threads /\ \A w \in Workers : ~Running(w)

RECURSIVE XorUpTo(_, _)
\* XOR of all operands in the histories ops[1], ..., ops[k]
XorUpTo(ops, k) == IF k = 0 THEN 0 ELSE Xor(XorSeq(ops[k]), XorUpTo(ops, k - 1))

\* XOR of every operand any worker has passed to SharedAtomic::fetch_xor
AtomicApplied == XorUpTo(aops, cfg.threads)

\* XOR of every operand any worker has passed to SharedUnsync::fetch_xor
UnsyncApplied == XorUpTo(uops, cfg.threads)

\* worker w is inside do_xors between the effects of its two calls
MidDoXors(w) == wpc[w] \in {"uread", "uwrite", "killed_uread", "killed_uwrite"}

\* every worker has been spawned and has returned normally
AllReturned == spawned = cfg.threads /\ \A w \in Workers : wpc[w] = "done"

\* SharedUnsync::fetch_xor calls of worker w that have returned
UnsyncCompleted(w) ==
    Len(uops[w]) - (IF wpc[w] \in {"uwrite", "killed_uwrite"} THEN 1 ELSE 0)

(* ---- initial states ---- *)

\* the state at entry to main for a given choice of the loop constants
InitWith(c) ==
    /\ cfg = c
    /\ dpc = "new_unsync"
    /\ spawned = 0
    /\ joined = 0
    /\ unsync = Absent
    /\ atomic = Absent
    /\ wpc = [w \in 1 .. c.threads |-> "unspawned"]
    /\ i = [w \in 1 .. c.threads |-> 0]
    /\ j = [w \in 1 .. c.threads |-> 0]
    /\ n = [w \in 1 .. c.threads |-> 0]
    /\ reg = [w \in 1 .. c.threads |-> 0]
    /\ aops = [w \in 1 .. c.threads |-> <<>>]
    /\ uops = [w \in 1 .. c.threads |-> <<>>]
    /\ out = <<>>
    /\ overlapped = FALSE

\* an odd inner repeat count
MainCfgOdd(t, o, h) ==
    [threads |-> t, outer |-> o, inner |-> 2 * h - 1,
     ops |-> [w \in 1 .. t |-> Operands]]

\* the loop constants of main (32, 256, 2048), scaled down; every worker draws any operand
MainCfg(t, o, h) ==
    [threads |-> t, outer |-> o, inner |-> 2 * h,
     ops |-> [w \in 1 .. t |-> Operands]]

\* the runs of main within the bounds
MainCfgs ==
    {MainCfg(t, o, h) : <<t, o, h>> \in
        {x \in (1 .. MaxThreads) \X (1 .. MaxOuter) \X (1 .. MaxInnerHalf) :
            x[1] * x[2] * x[3] <= MaxHalfApps}}

Init == \E c \in MainCfgs : InitWith(c)

(* ---- the driver: main ---- *)

\* bytes of a line before its value: "unsync: " and "atomic: ", "took "
LabelLen(name) == IF name = "took" THEN 5 ELSE 8

\* a line as println! formats it: the label, the digits of the value (the
\* text of the elapsed time is not modelled) and the newline
Line(name, digits) ==
    [line |-> name, head |-> LabelLen(name), digits |-> digits, nl |-> TRUE]

\* the proper, non-empty prefixes of a line: what is on stdout when the write
\* of the line was cut short
TornLines(l) ==
    {[line |-> l.line, head |-> h, digits |-> <<>>, nl |-> FALSE] : h \in 1 .. l.head}
        \cup {[line |-> l.line, head |-> l.head, digits |-> SubSeq(l.digits, 1, k), nl |-> FALSE] :
                  k \in 1 .. Len(l.digits)}

\* the digits s are the first digits of t
IsPrefix(s, t) == Len(s) <= Len(t) /\ SubSeq(t, 1, Len(s)) = s

\* stdout at the end of a run whose println! of line l panicked.  The line
\* is in the buffer of std's stdout when the write fails and the exit
\* cleanup writes the buffer again: none of the line (the failure lasts), a
\* part of it (a write was cut short) or all of it (the failure did not last)
\* is on stdout; main is over in each case.
AfterFailedPrint(l) ==
    {out} \cup {Append(out, t) : t \in TornLines(l) \cup {l}}

\* let unsync = SharedUnsync::new();
NewUnsync ==
    /\ dpc = "new_unsync"
    /\ unsync' = 0
    /\ dpc' = "new_atomic"
    /\ UNCHANGED <<cfg, spawned, joined, atomic, wpc, i, j, n, reg, aops, uops, out, overlapped>>

\* a counter created with a value other than 0
NewAtomicNonZero ==
    /\ dpc = "new_atomic"
    /\ atomic' = 1
    /\ dpc' = "now"
    /\ UNCHANGED <<cfg, spawned, joined, unsync, wpc, i, j, n, reg, aops, uops, out, overlapped>>

\* let atomic = SharedAtomic::new();
NewAtomic ==
    /\ dpc = "new_atomic"
    /\ atomic' = 0
    /\ dpc' = "now"
    /\ UNCHANGED <<cfg, spawned, joined, unsync, wpc, i, j, n, reg, aops, uops, out, overlapped>>

\* let start = Instant::now(); let mut threads = Vec::new();
InstantNow ==
    /\ dpc = "now"
    /\ dpc' = "spawn"
    /\ UNCHANGED <<cfg, spawned, joined, unsync, atomic, wpc, i, j, n, reg, aops, uops, out, overlapped>>

\* one iteration of `for _ in 0..32`: clone the handles, spawn, push the handle.
\* thread::spawn panics when the OS cannot create the thread: main then ends
\* abnormally inside the loop, with no new worker
Spawn ==
    /\ dpc = "spawn"
    /\ spawned < cfg.threads
    /\ \/ /\ spawned' = spawned + 1
          /\ wpc' = [wpc EXCEPT ![spawned + 1] = "seed"]
          /\ dpc' = dpc
       \/ /\ dpc' = "failed_spawn"
          /\ UNCHANGED <<spawned, wpc>>
    /\ UNCHANGED <<cfg, joined, unsync, atomic, i, j, n, reg, aops, uops, out, overlapped>>

\* the range 0..32 is exhausted: threads.into_iter()
SpawnDone ==
    /\ dpc = "spawn"
    /\ spawned = cfg.threads
    /\ dpc' = "join"
    /\ UNCHANGED <<cfg, spawned, joined, unsync, atomic, wpc, i, j, n, reg, aops, uops, out, overlapped>>

\* a join whose result is dropped: a panicked worker is passed over
JoinIgnorePanic ==
    /\ dpc = "join"
    /\ joined < cfg.threads
    /\ wpc[joined + 1] \in {"done", "panicked"}
    /\ joined' = joined + 1
    /\ dpc' = dpc
    /\ UNCHANGED <<cfg, spawned, unsync, atomic, wpc, i, j, n, reg, aops, uops, out, overlapped>>

\* a join that returns without waiting for the worker
JoinNoWait ==
    /\ dpc = "join"
    /\ joined < cfg.threads
    /\ IF wpc[joined + 1] # "panicked"
       THEN /\ joined' = joined + 1
            /\ dpc' = dpc
       ELSE /\ joined' = joined
            /\ dpc' = "failed_join"
    /\ UNCHANGED <<cfg, spawned, unsync, atomic, wpc, i, j, n, reg, aops, uops, out, overlapped>>

\* for_each(|t| t.join().unwrap()) on the next handle: join blocks until that
\* worker has terminated, and unwrap panics if the worker panicked
Join ==
    /\ dpc = "join"
    /\ joined < cfg.threads
    /\ wpc[joined + 1] \in {"done", "panicked"}
    /\ IF wpc[joined + 1] = "done"
       THEN /\ joined' = joined + 1
            /\ dpc' = dpc
       ELSE /\ joined' = joined
            /\ dpc' = "failed_join"
    /\ UNCHANGED <<cfg, spawned, unsync, atomic, wpc, i, j, n, reg, aops, uops, out, overlapped>>

\* only the first handle is joined before the results are printed
JoinDoneOnFirst ==
    /\ dpc = "join"
    /\ joined >= 1
    /\ dpc' = "print_unsync"
    /\ UNCHANGED <<cfg, spawned, joined, unsync, atomic, wpc, i, j, n, reg, aops, uops, out, overlapped>>

\* every handle has been joined: for_each returns
JoinDone ==
    /\ dpc = "join"
    /\ joined = cfg.threads
    /\ dpc' = "print_unsync"
    /\ UNCHANGED <<cfg, spawned, joined, unsync, atomic, wpc, i, j, n, reg, aops, uops, out, overlapped>>

\* the unsync line printed from the other counter
PrintUnsyncFromAtomic ==
    /\ dpc = "print_unsync"
    /\ \/ /\ out' = Append(out, Line("unsync", FmtBin(AtomicGet, FMT_WIDTH)))
          /\ dpc' = "print_atomic"
       \/ /\ out' \in AfterFailedPrint(Line("unsync", FmtBin(AtomicGet, FMT_WIDTH)))
          /\ dpc' = "failed_print"
    /\ UNCHANGED <<cfg, spawned, joined, unsync, atomic, wpc, i, j, n, reg, aops, uops, overlapped>>

\* println!("unsync: {:064b}", unsync.get()); the counter is read and
\* formatted, then written to stdout; println! panics when that write fails,
\* and main ends abnormally with none, a part or all of the line on stdout
PrintUnsync ==
    /\ dpc = "print_unsync"
    /\ \/ /\ out' = Append(out, Line("unsync", FmtBin(UnsyncGet, FMT_WIDTH)))
          /\ dpc' = "print_atomic"
       \/ /\ out' \in AfterFailedPrint(Line("unsync", FmtBin(UnsyncGet, FMT_WIDTH)))
          /\ dpc' = "failed_print"
    /\ UNCHANGED <<cfg, spawned, joined, unsync, atomic, wpc, i, j, n, reg, aops, uops, overlapped>>

\* a get that takes the value out of the counter, as swap(0) would
PrintAtomicTakes ==
    /\ dpc = "print_atomic"
    /\ \/ /\ out' = Append(out, Line("atomic", FmtBin(AtomicGet, FMT_WIDTH)))
          /\ dpc' = "print_took"
       \/ /\ out' \in AfterFailedPrint(Line("atomic", FmtBin(AtomicGet, FMT_WIDTH)))
          /\ dpc' = "failed_print"
    /\ atomic' = 0
    /\ UNCHANGED <<cfg, spawned, joined, unsync, wpc, i, j, n, reg, aops, uops, overlapped>>

\* println!("atomic: {:064b}", atomic.get()); panics when the write fails
PrintAtomic ==
    /\ dpc = "print_atomic"
    /\ \/ /\ out' = Append(out, Line("atomic", FmtBin(AtomicGet, FMT_WIDTH)))
          /\ dpc' = "print_took"
       \/ /\ out' \in AfterFailedPrint(Line("atomic", FmtBin(AtomicGet, FMT_WIDTH)))
          /\ dpc' = "failed_print"
    /\ UNCHANGED <<cfg, spawned, joined, unsync, atomic, wpc, i, j, n, reg, aops, uops, overlapped>>

\* println!("took {:.0?}", start.elapsed()); and main returns; println!
\* panics when the write fails
PrintTook ==
    /\ dpc = "print_took"
    /\ \/ /\ out' = Append(out, Line("took", <<>>))
          /\ dpc' = "done"
       \/ /\ out' \in AfterFailedPrint(Line("took", <<>>))
          /\ dpc' = "failed_print"
    /\ UNCHANGED <<cfg, spawned, joined, unsync, atomic, wpc, i, j, n, reg, aops, uops, overlapped>>

Driver ==
    \/ NewUnsync
    \/ NewAtomic
    \/ InstantNow
    \/ Spawn
    \/ SpawnDone
    \/ Join
    \/ JoinDone
    \/ PrintUnsync
    \/ PrintAtomic
    \/ PrintTook

(* ---- a worker: the closure given to thread::spawn ---- *)

\* let mut rng = SmallRng::from_entropy();
Seed(w) ==
    /\ wpc[w] = "seed"
    /\ wpc' = [wpc EXCEPT ![w] = "draw"]
    /\ UNCHANGED <<cfg, dpc, spawned, joined, unsync, atomic, i, j, n, reg, aops, uops, out, overlapped>>

\* from_entropy panics when the entropy source fails: the worker terminates abnormally
SeedPanic(w) ==
    /\ wpc[w] = "seed"
    /\ wpc' = [wpc EXCEPT ![w] = "panicked"]
    /\ UNCHANGED <<cfg, dpc, spawned, joined, unsync, atomic, i, j, n, reg, aops, uops, out, overlapped>>

\* the two calls of do_xors in the other order
DrawThenUnsync(w) ==
    /\ wpc[w] = "draw"
    /\ i[w] < cfg.outer
    /\ \E v \in cfg.ops[w] : n' = [n EXCEPT ![w] = v]
    /\ i' = [i EXCEPT ![w] = i[w] + 1]
    /\ j' = [j EXCEPT ![w] = 0]
    /\ wpc' = [wpc EXCEPT ![w] = "uread"]
    /\ UNCHANGED <<cfg, dpc, spawned, joined, unsync, atomic, reg, aops, uops, out, overlapped>>

\* one iteration head of `for _ in 0..256`: let n: u64 = rng.gen();
Draw(w) ==
    /\ wpc[w] = "draw"
    /\ i[w] < cfg.outer
    /\ \E v \in cfg.ops[w] : n' = [n EXCEPT ![w] = v]
    /\ i' = [i EXCEPT ![w] = i[w] + 1]
    /\ j' = [j EXCEPT ![w] = 0]
    /\ wpc' = [wpc EXCEPT ![w] = "atomic"]
    /\ UNCHANGED <<cfg, dpc, spawned, joined, unsync, atomic, reg, aops, uops, out, overlapped>>

\* fetch_or where fetch_xor belongs
AtomicFetchOr(w) ==
    /\ wpc[w] = "atomic"
    /\ atomic' = BitOr(atomic, n[w])
    /\ aops' = [aops EXCEPT ![w] = Append(aops[w], n[w])]
    /\ wpc' = [wpc EXCEPT ![w] = "uread"]
    /\ UNCHANGED <<cfg, dpc, spawned, joined, unsync, i, j, n, reg, uops, out, overlapped>>

\* a store where the read-modify-write belongs
AtomicStoreOnly(w) ==
    /\ wpc[w] = "atomic"
    /\ atomic' = n[w]
    /\ aops' = [aops EXCEPT ![w] = Append(aops[w], n[w])]
    /\ wpc' = [wpc EXCEPT ![w] = "uread"]
    /\ UNCHANGED <<cfg, dpc, spawned, joined, unsync, i, j, n, reg, uops, out, overlapped>>

\* do_xors line 37: atomic.fetch_xor(n), one indivisible read-modify-write
AtomicFetchXor(w) ==
    /\ wpc[w] = "atomic"
    /\ atomic' = Xor(atomic, n[w])
    /\ aops' = [aops EXCEPT ![w] = Append(aops[w], n[w])]
    /\ wpc' = [wpc EXCEPT ![w] = "uread"]
    /\ UNCHANGED <<cfg, dpc, spawned, joined, unsync, i, j, n, reg, uops, out, overlapped>>

\* a read-modify-write that reuses the register instead of loading the cell
UnsyncReadCached(w) ==
    /\ wpc[w] = "uread"
    /\ reg' = reg
    /\ overlapped' = (overlapped \/ \E v \in Workers \ {w} : wpc[v] = "uwrite")
    /\ uops' = [uops EXCEPT ![w] = Append(uops[w], n[w])]
    /\ wpc' = [wpc EXCEPT ![w] = "uwrite"]
    /\ UNCHANGED <<cfg, dpc, spawned, joined, unsync, atomic, i, j, n, aops, out>>

\* a load that waits while another worker is between its load and its store
UnsyncReadLocked(w) ==
    /\ wpc[w] = "uread"
    /\ \A v \in Workers : wpc[v] # "uwrite"
    /\ reg' = [reg EXCEPT ![w] = unsync]
    /\ uops' = [uops EXCEPT ![w] = Append(uops[w], n[w])]
    /\ wpc' = [wpc EXCEPT ![w] = "uwrite"]
    /\ overlapped' = (overlapped \/ \E v \in Workers \ {w} : wpc[v] = "uwrite")
    /\ UNCHANGED <<cfg, dpc, spawned, joined, unsync, atomic, i, j, n, aops, out>>

\* do_xors line 38, first half of `*cell ^= other`: the plain load
UnsyncRead(w) ==
    /\ wpc[w] = "uread"
    /\ reg' = [reg EXCEPT ![w] = unsync]
    /\ uops' = [uops EXCEPT ![w] = Append(uops[w], n[w])]
    /\ wpc' = [wpc EXCEPT ![w] = "uwrite"]
    /\ overlapped' = (overlapped \/ \E v \in Workers \ {w} : wpc[v] = "uwrite")
    /\ UNCHANGED <<cfg, dpc, spawned, joined, unsync, atomic, i, j, n, aops, out>>

\* `+=` where `^=` belongs
UnsyncWriteAdd(w) ==
    /\ wpc[w] = "uwrite"
    /\ unsync' = reg[w] + n[w]
    /\ reg' = [reg EXCEPT ![w] = 0]
    /\ j' = [j EXCEPT ![w] = j[w] + 1]
    /\ wpc' = [wpc EXCEPT ![w] =
                 IF j[w] + 1 < cfg.inner THEN "atomic"
                 ELSE IF i[w] < cfg.outer THEN "draw"
                 ELSE "done"]
    /\ UNCHANGED <<cfg, dpc, spawned, joined, atomic, i, n, aops, uops, out, overlapped>>

\* an inner loop over 0..=2048: one repeat too many
UnsyncWriteOneMore(w) ==
    /\ wpc[w] = "uwrite"
    /\ unsync' = Xor(reg[w], n[w])
    /\ reg' = [reg EXCEPT ![w] = 0]
    /\ j' = [j EXCEPT ![w] = j[w] + 1]
    /\ wpc' = [wpc EXCEPT ![w] =
                 IF j[w] + 1 <= cfg.inner THEN "atomic"
                 ELSE IF i[w] < cfg.outer THEN "draw"
                 ELSE "done"]
    /\ UNCHANGED <<cfg, dpc, spawned, joined, atomic, i, n, aops, uops, out, overlapped>>

\* `|=` where `^=` belongs
UnsyncWriteOr(w) ==
    /\ wpc[w] = "uwrite"
    /\ unsync' = BitOr(reg[w], n[w])
    /\ reg' = [reg EXCEPT ![w] = 0]
    /\ j' = [j EXCEPT ![w] = j[w] + 1]
    /\ wpc' = [wpc EXCEPT ![w] =
                 IF j[w] + 1 < cfg.inner THEN "atomic"
                 ELSE IF i[w] < cfg.outer THEN "draw"
                 ELSE "done"]
    /\ UNCHANGED <<cfg, dpc, spawned, joined, atomic, i, n, aops, uops, out, overlapped>>

\* a store computed from the cell's current value, as a locked read-modify-write would
UnsyncWriteFresh(w) ==
    /\ wpc[w] = "uwrite"
    /\ unsync' = Xor(unsync, n[w])
    /\ reg' = [reg EXCEPT ![w] = 0]
    /\ j' = [j EXCEPT ![w] = j[w] + 1]
    /\ wpc' = [wpc EXCEPT ![w] =
                 IF j[w] + 1 < cfg.inner THEN "atomic"
                 ELSE IF i[w] < cfg.outer THEN "draw"
                 ELSE "done"]
    /\ UNCHANGED <<cfg, dpc, spawned, joined, atomic, i, n, aops, uops, out, overlapped>>

\* second half of `*cell ^= other`: the plain store of loaded ^ other; then
\* the loop ends: next inner repeat, next outer iteration, or the closure returns
UnsyncWrite(w) ==
    /\ wpc[w] = "uwrite"
    /\ unsync' = Xor(reg[w], n[w])
    /\ reg' = [reg EXCEPT ![w] = 0]
    /\ j' = [j EXCEPT ![w] = j[w] + 1]
    /\ wpc' = [wpc EXCEPT ![w] =
                 IF j[w] + 1 < cfg.inner THEN "atomic"
                 ELSE IF i[w] < cfg.outer THEN "draw"
                 ELSE "done"]
    /\ UNCHANGED <<cfg, dpc, spawned, joined, atomic, i, n, aops, uops, out, overlapped>>

Worker(w) ==
    \/ Seed(w)
    \/ SeedPanic(w)
    \/ Draw(w)
    \/ AtomicFetchXor(w)
    \/ UnsyncRead(w)
    \/ UnsyncWrite(w)

\* main has panicked in thread::spawn or in join().unwrap(): the process
\* exits (status 101) and the workers still running stop where they are.
\* (When main panics in println! or returns, every worker has been joined
\* and none is running.)
ProcessExit ==
    /\ dpc \in {"failed_spawn", "failed_join"}
    /\ \E w \in Workers : Running(w)
    /\ wpc' = [w \in Workers |-> Killed(wpc[w])]
    /\ UNCHANGED <<cfg, dpc, spawned, joined, unsync, atomic, i, j, n, reg, aops, uops, out, overlapped>>

Next ==
    \/ NewUnsync
    \/ NewAtomic
    \/ InstantNow
    \/ Spawn
    \/ SpawnDone
    \/ Join
    \/ JoinDone
    \/ PrintUnsync
    \/ PrintAtomic
    \/ PrintTook
    \/ ProcessExit
    \/ \E w \in Workers : Seed(w)
    \/ \E w \in Workers : SeedPanic(w)
    \/ \E w \in Workers : Draw(w)
    \/ \E w \in Workers : AtomicFetchXor(w)
    \/ \E w \in Workers : UnsyncRead(w)
    \/ \E w \in Workers : UnsyncWrite(w)

Spec == Init /\ [][Next]_vars

\* the runs of main within the bounds, with operands up to MaxLiveOperand
LiveCfgs ==
    {[c EXCEPT !.ops = [w \in 1 .. c.threads |-> 0 .. MaxLiveOperand]] : c \in MainCfgs}

LiveInit == \E c \in LiveCfgs : InitWith(c)

\* the operating system schedules every thread that can run: the driver and
\* each worker; and a process whose main has panicked does exit
FairSpec ==
    /\ LiveInit
    /\ [][Next]_vars
    /\ WF_vars(Driver)
    /\ WF_vars(ProcessExit)
    /\ \A w \in 1 .. MaxThreads : WF_vars(w \in Workers /\ Worker(w))

(* ---- the same code driven with other loop constants and operands ---- *)

\* any thread count (none included), any repeat count (odd included), any operand
HarnessCfgs ==
    {[threads |-> x[1], outer |-> x[2], inner |-> x[3], ops |-> [w \in 1 .. x[1] |-> Operands]] :
        x \in {y \in (0 .. MaxThreads) \X (1 .. MaxOuter) \X (1 .. 2 * MaxInnerHalf) :
                  y[1] * y[2] * y[3] <= MaxApps}}

HarnessInit == \E c \in HarnessCfgs : InitWith(c)

HarnessSpec == HarnessInit /\ [][Next]_vars

\* 4 threads, outer = 1, inner = 1, thread number w - 1 uses the operand w
ScenarioCfg ==
    [threads |-> 4, outer |-> 1, inner |-> 1,
     ops |-> [w \in 1 .. 4 |-> {w}]]

ScenarioInit == InitWith(ScenarioCfg)

ScenarioSpec == ScenarioInit /\ [][Next]_vars

(* ---- properties ---- *)

\* C1: once every caller of SharedAtomic::fetch_xor has returned (all workers
\* spawned and terminated), SharedAtomic::get is the XOR of all operands that
\* were passed to fetch_xor: no update is lost, whatever the interleaving.
C1_AtomicFinalIsXorOfAll ==
    (atomic # Absent /\ AllTerminated) => AtomicGet = AtomicApplied

\* two workers have finished applying operands whose XOR is not 0
C1_Witness ==
    /\ AllTerminated
    /\ cfg.threads >= 2
    /\ \A w \in Workers : wpc[w] = "done" /\ aops[w] # <<>>
    /\ AtomicApplied # 0
    /\ AtomicGet = AtomicApplied

\* C2: with an even inner repeat count, the value of the atomic counter that
\* the driver reads after the join barrier is 0, and so is the value it prints.
C2_EvenRepeatsCancel ==
    /\ dpc \in {"print_unsync", "print_atomic", "print_took", "done"} => AtomicGet = 0
    /\ \A k \in 1 .. Len(out) : out[k].line = "atomic" => BinValue(out[k].digits) = 0

\* the driver has printed the atomic counter after two workers applied nonzero operands
C2_Witness ==
    /\ dpc = "done"
    /\ cfg.threads >= 2
    /\ \A w \in Workers : aops[w] # <<>> /\ aops[w][1] # 0
    /\ aops[1][1] # aops[2][1]
    /\ \E k \in 1 .. Len(out) : out[k].line = "atomic" /\ BinValue(out[k].digits) = 0

\* C3: a store of SharedUnsync::fetch_xor made after another worker has changed
\* the cell since this worker's load is computed from the stale load: the cell
\* becomes stale ^ operand, not current ^ operand, so the other update is lost.
C3_StaleWriteLosesUpdate ==
    [][\A w \in Workers :
          (wpc[w] = "uwrite" /\ wpc'[w] \in {"atomic", "draw", "done"} /\ unsync # reg[w])
              => (unsync' = Xor(reg[w], n[w]) /\ unsync' # Xor(unsync, n[w]))]_vars

\* all workers have terminated normally and the unsynchronized counter differs from
\* the XOR of the operands applied to it, and from the atomic counter
C3_Witness ==
    /\ AllTerminated
    /\ cfg.threads >= 2
    /\ \A w \in Workers : wpc[w] = "done"
    /\ UnsyncGet # UnsyncApplied
    /\ UnsyncGet # AtomicGet

\* C4: the driver reads a counter (unsync.get(), atomic.get()) only when no
\* worker is spawned and not yet terminated.  The read is the first thing a
\* print step does, whether or not the write that follows succeeds.
C4_ReadsOnlyAfterJoin ==
    [][(dpc \in {"print_unsync", "print_atomic"} /\ dpc' # dpc)
          => Cardinality({w \in Workers : Running(w)}) = 0]_vars

\* the driver is about to read the atomic counter, having read the other one,
\* after two workers ran
C4_Witness ==
    /\ dpc = "print_atomic"
    /\ Len(out) = 1
    /\ cfg.threads >= 2
    /\ \A w \in Workers : aops[w] # <<>>

\* C5: in the scenario of 4 workers, one outer iteration, one inner repeat and
\* worker number w - 1 applying the operand w, the atomic counter is 4 after
\* the join barrier, and 4 is what the driver prints for it (of a line cut
\* short by a failed write, the digits on stdout are the first digits of 4).
C5_ScenarioAtomicIsFour ==
    /\ dpc \in {"print_unsync", "print_atomic", "print_took", "done"} => AtomicGet = 4
    /\ \A k \in 1 .. Len(out) :
          out[k].line = "atomic"
              => /\ IsPrefix(out[k].digits, FmtBin(4, FMT_WIDTH))
                 /\ out[k].nl => BinValue(out[k].digits) = 4

\* the scenario has run to its end: each of the 4 workers applied its operand once
C5_Witness ==
    /\ dpc = "done"
    /\ cfg.threads = 4
    /\ \A w \in Workers : aops[w] = <<w>>
    /\ Len(out) = 3
    /\ BinValue(out[2].digits) = 4

\* C6: within a worker the two counters get the same operands in lock-step: the
\* operands applied to the unsynchronized counter are a prefix of those applied
\* to the atomic one, an unsynchronized application starts only after the
\* atomic application of the same operand, and the next atomic application
\* starts only after the unsynchronized one has completed.
C6_LockStep ==
    \A w \in Workers :
        /\ Len(uops[w]) <= Len(aops[w])
        /\ uops[w] = SubSeq(aops[w], 1, Len(uops[w]))
        /\ Len(aops[w]) - UnsyncCompleted(w) \in {0, 1}
        /\ wpc[w] = "uwrite" => Len(aops[w]) = Len(uops[w])
        /\ wpc[w] = "atomic" => UnsyncCompleted(w) = Len(aops[w])

\* a worker is in the middle of its second unsynchronized application
C6_Witness ==
    \E w \in Workers :
        /\ wpc[w] = "uwrite"
        /\ Len(aops[w]) = 2
        /\ Len(uops[w]) = 2
        /\ UnsyncCompleted(w) = 1
        /\ n[w] # 0

\* C7: nothing orders the accesses of two workers to the unsynchronized cell: a
\* worker at its load or at its store can always take that step, also while
\* another worker is between its own load and store.
C7_NoSerialization ==
    \A w \in Workers :
        /\ wpc[w] = "uread" => ENABLED UnsyncRead(w)
        /\ wpc[w] = "uwrite" => ENABLED UnsyncWrite(w)

\* one worker has loaded the cell and not yet stored while another worker is
\* about to load or store it
C7_Witness ==
    \E w1, w2 \in Workers :
        /\ w1 # w2
        /\ wpc[w1] = "uwrite"
        /\ wpc[w2] \in {"uread", "uwrite"}

\* some worker has terminated abnormally
SomePanic == \E w \in Workers : wpc[w] = "panicked"

\* main has ended abnormally: in thread::spawn, in join().unwrap() or in println!
DriverFailed == dpc \in {"failed_spawn", "failed_join", "failed_print"}

\* main has ended, by returning or abnormally
DriverEnded == dpc = "done" \/ DriverFailed

\* the run has reached completion: every worker did its iterations and
\* returned, every handle was joined, the three lines were printed, main returned
Completed ==
    /\ dpc = "done"
    /\ joined = cfg.threads
    /\ Len(out) = 3
    /\ \A w \in Workers : wpc[w] = "done" /\ Len(aops[w]) = cfg.outer * cfg.inner

\* C8: under fair scheduling, with no worker terminated abnormally, the run
\* always reaches completion: whenever main has ended and no worker has
\* panicked, every worker has done its iterations and returned, every handle
\* has been joined, the three lines have been printed and main has returned.
\* The code does not keep this: thread::spawn panics when the OS refuses the
\* thread and println! panics when the write to stdout fails, and main then
\* ends abnormally although no worker has.
C8_EndsOnlyInCompletion ==
    (DriverEnded /\ ~SomePanic) => Completed

\* the lines of a complete output, in order
OutputOrder == <<"unsync", "atomic", "took">>

\* C9: the driver prints the unsync line, then the atomic line, then the elapsed
\* time, each once; on completion all three are there, whole, and each printed
\* value is the value its counter holds after the join barrier.  Only the
\* last line on stdout can be cut short, only in a run whose println! failed,
\* and its digits are then the first digits of the counter's value.
C9_ThreeOutputsInOrder ==
    /\ Len(out) <= 3
    /\ \A k \in 1 .. Len(out) : out[k].line = OutputOrder[k]
    /\ \A k \in 1 .. Len(out) : ~out[k].nl => (k = Len(out) /\ dpc = "failed_print")
    /\ Len(out) >= 1 => /\ IsPrefix(out[1].digits, FmtBin(UnsyncGet, FMT_WIDTH))
                        /\ out[1].nl => BinValue(out[1].digits) = UnsyncGet
    /\ Len(out) >= 2 => /\ IsPrefix(out[2].digits, FmtBin(AtomicGet, FMT_WIDTH))
                        /\ out[2].nl => BinValue(out[2].digits) = AtomicGet
    /\ dpc = "done" => (Len(out) = 3 /\ \A k \in 1 .. 3 : out[k] = Line(OutputOrder[k], out[k].digits))

\* a completed run of two workers whose two counters ended with different values
C9_Witness ==
    /\ dpc = "done"
    /\ cfg.threads >= 2
    /\ Len(out) = 3
    /\ BinValue(out[1].digits) # BinValue(out[2].digits)
    /\ BinValue(out[1].digits) # 0

\* C10: both counters exist before any worker is spawned, each is 0 from its
\* creation until the first fetch_xor on it takes effect, and a run in which
\* no operand is applied prints 0 for both.
C10_CountersStartAtZero ==
    /\ (spawned > 0 \/ \E w \in Workers : wpc[w] # "unspawned")
           => (unsync # Absent /\ atomic # Absent)
    /\ (atomic # Absent /\ \A w \in Workers : aops[w] = <<>>) => AtomicGet = 0
    /\ (unsync # Absent /\ \A w \in Workers : UnsyncCompleted(w) = 0) => UnsyncGet = 0
    /\ (\A w \in Workers : aops[w] = <<>>)
           => \A k \in 1 .. Len(out) : out[k].line # "took" => BinValue(out[k].digits) = 0

\* all of two workers are running, one has loaded the unsynchronized cell, and
\* no fetch_xor has taken effect yet: both counters are still 0
C10_Witness ==
    /\ cfg.threads >= 2
    /\ spawned = cfg.threads
    /\ \A w \in Workers : Running(w) /\ aops[w] = <<>>
    /\ \E w \in Workers : wpc[w] = "atomic" /\ n[w] # 0
    /\ AtomicGet = 0
    /\ UnsyncGet = 0

\* C11: a worker's panic is not recovered.  The driver passes the join of a
\* handle only if that worker returned normally; at the join of a panicked
\* worker its only step is to fail there, a driver that failed at a join
\* failed at the join of a panicked worker, a failed driver takes no further
\* step, and a run in which a worker panicked never reaches normal completion.
C11_PanicFailsDriverAtJoin ==
    /\ \A w \in 1 .. joined : wpc[w] = "done"
    /\ dpc = "failed_join" => (joined < cfg.threads /\ wpc[joined + 1] = "panicked")
    /\ DriverFailed => ~ENABLED Driver
    /\ (dpc = "join" /\ joined < cfg.threads /\ wpc[joined + 1] = "panicked")
           => /\ ENABLED (Join /\ dpc' = "failed_join")
              /\ ~ENABLED (Driver /\ dpc' # "failed_join")
    /\ SomePanic => dpc # "done"

\* the driver joined the first worker, which had done its work, and failed at
\* the join of the second, which had panicked
C11_Witness ==
    /\ dpc = "failed_join"
    /\ cfg.threads >= 2
    /\ joined = 1
    /\ aops[1] # <<>>
    /\ wpc[2] = "panicked"

\* C12: the counters diverge only through overlapping unsynchronized updates.
\* As long as no SharedUnsync::fetch_xor has overlapped another one (always so
\* with a single worker), the two counters are equal whenever no worker is
\* between the two calls of do_xors, and the two values the driver prints
\* after the join barrier are equal (an atomic line cut short by a failed
\* write has the first digits of the unsync line).
C12_NoOverlapNoDivergence ==
    /\ cfg.threads = 1 => ~overlapped
    /\ (~overlapped /\ unsync # Absent /\ atomic # Absent /\ \A w \in Workers : ~MidDoXors(w))
           => UnsyncGet = AtomicGet
    /\ (~overlapped /\ Len(out) >= 2)
           => /\ IsPrefix(out[2].digits, out[1].digits)
              /\ out[2].nl => BinValue(out[1].digits) = BinValue(out[2].digits)

\* two workers applied their operands one after the other, without overlap, and
\* both counters ended with the same value, which is not 0
C12_Witness ==
    /\ AllReturned
    /\ cfg.threads = 2
    /\ ~overlapped
    /\ dpc = "done"
    /\ UnsyncGet = AtomicGet
    /\ AtomicGet # 0
    /\ BinValue(out[1].digits) = AtomicGet

\* C13: a wrong result of the unsynchronized counter is not certain.  After all
\* workers have returned, the two counters differ only in runs of two or more
\* workers in which unsynchronized updates overlapped; and such a run can also
\* end with the two counters equal.
C13_DivergenceOnlyWithRace ==
    (AllReturned /\ UnsyncGet # AtomicGet) => (cfg.threads >= 2 /\ overlapped)

\* updates with operands other than 0 overlapped, and yet the unsynchronized
\* counter ended equal to the atomic one
C13_Witness ==
    /\ AllReturned
    /\ cfg.threads >= 2
    /\ overlapped
    /\ \A w \in Workers : \A k \in 1 .. Len(uops[w]) : uops[w][k] # 0
    /\ UnsyncGet = AtomicGet
    /\ UnsyncGet = UnsyncApplied

\* updates overlapped and the unsynchronized counter ended different from the atomic one
C13_WitnessDiffer ==
    /\ AllReturned
    /\ cfg.threads >= 2
    /\ overlapped
    /\ UnsyncGet # AtomicGet

\* C14: once created, a counter changes only in a fetch_xor step of a worker on
\* that counter: a step that changes the atomic counter is a worker's
\* SharedAtomic::fetch_xor and leaves the unsynchronized one alone, a step that
\* changes the unsynchronized counter is the store of a worker's
\* SharedUnsync::fetch_xor and leaves the atomic one alone, and once every
\* worker has terminated neither value changes again.
C14_OnlyFetchXorChangesCounters ==
    [][/\ (atomic # Absent /\ atomic' # atomic)
            => (/\ unsync' = unsync
                /\ dpc' = dpc /\ out' = out /\ spawned' = spawned /\ joined' = joined /\ n' = n
                /\ \E w \in Workers : wpc[w] = "atomic" /\ wpc'[w] = "uread"
                                       /\ atomic' = Xor(atomic, n[w]))
       /\ (unsync # Absent /\ unsync' # unsync)
            => (/\ atomic' = atomic
                /\ dpc' = dpc /\ out' = out /\ spawned' = spawned /\ joined' = joined /\ n' = n
                /\ \E w \in Workers : wpc[w] = "uwrite" /\ wpc'[w] # "uwrite")
       /\ (atomic # Absent /\ AllTerminated) => (atomic' = atomic /\ unsync' = unsync)]_vars

\* the driver has read and printed both counters, which hold different values
\* other than 0, and is about to take its last step
C14_Witness ==
    /\ dpc = "print_took"
    /\ cfg.threads >= 2
    /\ AllReturned
    /\ AtomicGet # 0
    /\ UnsyncGet # 0
    /\ UnsyncGet # AtomicGet
    /\ BinValue(out[2].digits) = AtomicGet

RECURSIVE TotalLen(_, _)
\* number of operands in the histories ops[1], ..., ops[k]
TotalLen(ops, k) == IF k = 0 THEN 0 ELSE Len(ops[k]) + TotalLen(ops, k - 1)

\* the history ops is made of blocks of len equal operands, the last one possibly short
InBlocksOf(ops, len) ==
    \A k \in 1 .. Len(ops) : ops[k] = ops[((k - 1) \div len) * len + 1]

\* C15: a worker does a fixed amount of work.  It draws at most `outer`
\* operands, applies each one `inner` times to each counter before it draws
\* the next, and when it terminates it has drawn exactly `outer` operands and
\* called fetch_xor exactly outer * inner times on each counter; all workers
\* together make threads * outer * inner calls on each counter.  (outer, inner
\* and threads are 256, 2048 and 32 in the source.)
C15_FixedWork ==
    /\ \A w \in Workers :
          /\ i[w] <= cfg.outer
          /\ j[w] <= cfg.inner
          /\ Len(aops[w]) <= i[w] * cfg.inner
          /\ InBlocksOf(aops[w], cfg.inner)
          /\ InBlocksOf(uops[w], cfg.inner)
          /\ wpc[w] = "draw" => (/\ Len(aops[w]) = i[w] * cfg.inner
                                 /\ UnsyncCompleted(w) = i[w] * cfg.inner)
          /\ wpc[w] = "done" => (/\ i[w] = cfg.outer
                                 /\ Len(aops[w]) = cfg.outer * cfg.inner
                                 /\ UnsyncCompleted(w) = cfg.outer * cfg.inner)
    /\ AllReturned => (/\ TotalLen(aops, cfg.threads) = cfg.threads * cfg.outer * cfg.inner
                       /\ TotalLen(uops, cfg.threads) = cfg.threads * cfg.outer * cfg.inner)

\* a worker has terminated after drawing two different operands and applying
\* each of them twice to each counter
C15_Witness ==
    \E w \in Workers :
        /\ wpc[w] = "done"
        /\ cfg.outer = 2
        /\ cfg.inner = 2
        /\ Len(aops[w]) = 4
        /\ aops[w][1] = aops[w][2]
        /\ aops[w][3] = aops[w][4]
        /\ aops[w][1] # aops[w][3]
        /\ uops[w] = aops[w]

\* C16: in every state, not only at the end, the atomic counter is the XOR of
\* the operands of all SharedAtomic::fetch_xor calls made so far: each call
\* takes effect in one step, and no state shows an update lost or half applied.
C16_AtomicAlwaysXorOfApplied ==
    /\ atomic # Absent => AtomicGet = AtomicApplied
    /\ atomic = Absent => \A w \in Workers : aops[w] = <<>>

\* two workers are still running, each has applied an operand other than 0 to
\* the atomic counter, and the counter is not 0
C16_Witness ==
    /\ cfg.threads >= 2
    /\ \A w \in Workers : Running(w) /\ aops[w] # <<>> /\ aops[w][1] # 0
    /\ \E w \in Workers : wpc[w] = "uwrite"
    /\ AtomicGet # 0
    /\ AtomicGet = AtomicApplied

RECURSIVE AllOps(_, _)
\* the histories ops[1], ..., ops[k], one after the other
AllOps(ops, k) == IF k = 0 THEN <<>> ELSE AllOps(ops, k - 1) \o ops[k]

RECURSIVE SubXors(_)
\* the XORs of all sub-multisets of the operands in s
SubXors(s) ==
    IF s = <<>> THEN {0}
    ELSE LET r == SubXors(Tail(s)) IN r \cup {Xor(Head(s), x) : x \in r}

\* the operands drawn so far: those applied, and each worker's current one
Drawn ==
    {n[w] : w \in {v \in Workers : i[v] > 0}}
        \cup UNION {{aops[w][k] : k \in 1 .. Len(aops[w])} : w \in Workers}

RECURSIVE OrAll(_)
\* the bits that are 1 in some element of the set S of operands
OrAll(S) ==
    IF S = {} THEN 0
    ELSE LET x == CHOOSE y \in S : TRUE IN BitOr(x, OrAll(S \ {x}))

\* bit b is 0 in every operand drawn so far
ZeroInAllDrawn(b) == \A d \in Drawn : Bit(d, b) = 0

\* C17: with whole-word loads and stores, the unsynchronized counter is in
\* every state the XOR of some sub-multiset of the operand applications started
\* on it; and a bit that is 0 in every operand drawn is 0 in both counters
\* (each counter has no bit outside those of the drawn operands), whatever
\* updates were lost.
C17_UnsyncIsXorOfSomeApplied ==
    /\ unsync # Absent => UnsyncGet \in SubXors(AllOps(uops, cfg.threads))
    /\ unsync # Absent => BitOr(UnsyncGet, OrAll(Drawn)) = OrAll(Drawn)
    /\ atomic # Absent => BitOr(AtomicGet, OrAll(Drawn)) = OrAll(Drawn)

\* updates were lost: after all workers returned the unsynchronized counter is
\* not the XOR of all applications, it is not 0, and some bit of the operand
\* word is 0 in every operand drawn
C17_Witness ==
    /\ AllReturned
    /\ cfg.threads >= 2
    /\ UnsyncGet # UnsyncApplied
    /\ UnsyncGet # 0
    /\ \E b \in {0, 1} : ZeroInAllDrawn(b) /\ Bit(UnsyncGet, b) = 0
    /\ UnsyncGet \in SubXors(AllOps(uops, cfg.threads))

\* C18: a run in which a worker panicked prints nothing and reads no counter:
\* whenever some worker has panicked the output is empty and the driver is
\* still spawning or joining, or has failed at a spawn or at a join.
C18_NoOutputAfterPanic ==
    SomePanic => (out = <<>> /\ dpc \in {"spawn", "join", "failed_spawn", "failed_join"})

\* the first worker panicked, the second did all its work, and the driver
\* failed at the first join without having printed anything
C18_Witness ==
    /\ cfg.threads >= 2
    /\ wpc[1] = "panicked"
    /\ wpc[2] = "done"
    /\ UnsyncCompleted(2) = cfg.outer * cfg.inner
    /\ dpc = "failed_join"
    /\ joined = 0
    /\ out = <<>>

====
